---- MODULE Spec2Model ----
(***************************************************************************)
(* GreyTHR attendance service: the trigger handlers and background worker  *)
(* of app.py and the GreytHRAttendanceAPI class of greythr_api.py          *)
(* (construction from the environment, login_and_get_cookies,              *)
(* mark_attendance, send_telegram_message).                                *)
(*                                                                         *)
(* Strings are sequences.  An environment variable is a record             *)
(* [set, val]: os.getenv gives None for an unset variable (set = FALSE).   *)
(* The characters of GREYTHR_PASSWORD are numbers: 0..63 is a character of *)
(* the base64 alphabet (its sextet), PadChar is "=", OtherChar is an ASCII *)
(* character outside the alphabet.                                         *)
(***************************************************************************)
EXTENDS Integers, Sequences, FiniteSets, TLC

(* ------------------------------ bounds --------------------------------- *)

\* Values int(time.time()) takes while triggers arrive: 0..MaxTime.
MaxTime == 1
\* Values str(uuid.uuid4())[:8] is drawn from: 1..MaxSid.
MaxSid == 2

\* The trigger invocations: two, the number the statements about concurrent
\* invocations speak of.  Spec runs the first alone.
Inv == {1, 2}
Sids == 1..MaxSid

(* --------------------------- small helpers ----------------------------- *)

PadChar == 64
OtherChar == 65

Unset == [set |-> FALSE, val |-> <<>>]
Str(s) == [set |-> TRUE, val |-> s]

\* Python truthiness of an os.getenv result: None and '' are falsy.
Falsy(x) == ~x.set \/ x.val = <<>>

Last(s) == s[Len(s)]

\* The environment variables __init__ requires, and those of them that are
\* unset or empty in environment e.
RequiredVars == {"url", "username", "password", "token", "chat_id"}
MissingVars(e) == {f \in RequiredVars : ~e[f].set \/ e[f].val = <<>>}

(* ------------------------- base64 / UTF-8 ------------------------------ *)

\* binascii.a2b_base64 in its default, non-strict mode, as base64.b64decode
\* calls it: characters outside the alphabet are skipped, a pad is counted
\* only once two sextets of a quad have been read, and decoding stops at a
\* completed pad sequence.  The result is [ok, bytes].
RECURSIVE A2B(_, _, _, _, _, _)
A2B(s, k, quad, left, pads, out) ==
  IF k > Len(s)
  THEN [ok |-> quad = 0, bytes |-> out]
  ELSE LET ch == s[k] IN
       IF ch = PadChar
       THEN IF quad >= 2 /\ quad + pads + 1 >= 4
            THEN [ok |-> TRUE, bytes |-> out]
            ELSE A2B(s, k + 1, quad, left, IF quad >= 2 THEN pads + 1 ELSE pads, out)
       ELSE IF ch >= 64
       THEN A2B(s, k + 1, quad, left, pads, out)
       ELSE CASE quad = 0 -> A2B(s, k + 1, 1, ch, 0, out)
              [] quad = 1 -> A2B(s, k + 1, 2, ch % 16, 0,
                                 Append(out, left * 4 + (ch \div 16)))
              [] quad = 2 -> A2B(s, k + 1, 3, ch % 4, 0,
                                 Append(out, left * 16 + (ch \div 4)))
              [] OTHER    -> A2B(s, k + 1, 0, 0, 0, Append(out, left * 64 + ch))

b64decode(s) == A2B(s, 1, 0, 0, 0, <<>>)

IsCont(b) == b >= 128 /\ b <= 191

\* bytes.decode('utf-8'): TRUE when the byte sequence from position k on is
\* well-formed UTF-8 (strict error handling raises otherwise).
RECURSIVE Utf8Ok(_, _)
Utf8Ok(b, k) ==
  IF k > Len(b) THEN TRUE
  ELSE LET c == b[k]
           n == Len(b) - k
       IN CASE c < 128 -> Utf8Ok(b, k + 1)
            [] c >= 194 /\ c <= 223 ->
                 n >= 1 /\ IsCont(b[k + 1]) /\ Utf8Ok(b, k + 2)
            [] c >= 224 /\ c <= 239 ->
                 /\ n >= 2
                 /\ IsCont(b[k + 1]) /\ IsCont(b[k + 2])
                 /\ (c = 224 => b[k + 1] >= 160)
                 /\ (c = 237 => b[k + 1] <= 159)
                 /\ Utf8Ok(b, k + 3)
            [] c >= 240 /\ c <= 244 ->
                 /\ n >= 3
                 /\ IsCont(b[k + 1]) /\ IsCont(b[k + 2]) /\ IsCont(b[k + 3])
                 /\ (c = 240 => b[k + 1] >= 144)
                 /\ (c = 244 => b[k + 1] <= 143)
                 /\ Utf8Ok(b, k + 4)
            [] OTHER -> FALSE

\* base64.b64decode(greythr_password_b64).decode('utf-8') inside the try of
\* __init__: [ok, val]; ok = FALSE is the except branch (ValueError).
DecodePassword(s) ==
  LET d == b64decode(s) IN
  IF d.ok /\ Utf8Ok(d.bytes, 1)
  THEN [ok |-> TRUE, val |-> d.bytes]
  ELSE [ok |-> FALSE, val |-> <<>>]

(* ------------------------------- state --------------------------------- *)

VARIABLES
  env,          \* the process environment: the five variables __init__ reads
  selenium,     \* SELENIUM_AVAILABLE, fixed when greythr_api is imported
  now,          \* int(time.time())
  fs,           \* the directories that exist under /tmp
  browser,      \* per invocation: the Chromium the driver started: none, running, quit
  pc,           \* per invocation: where its handler / background task stands
  action,       \* per invocation: "Signin" or "Signout" (None before the trigger)
  request_id,   \* per invocation: the correlation identifier
  response,     \* per invocation: what the trigger handler answered
  api,          \* per invocation: the worker's GreytHRAttendanceAPI object
  jar,          \* per invocation: api.session.cookies
  loc,          \* per invocation: the locals of login_and_get_cookies
  made,         \* per invocation: the directories its os.makedirs calls created
  launches,     \* per invocation: how many times webdriver.Chrome was called
  login_success,       \* worker local
  resp,                \* mark_attendance: the outcome of session.post
  attendance_success,  \* worker local
  posts,        \* per invocation: the POSTs the portal received from it
  sent,         \* per invocation: the Telegram messages it attempted
  wlog          \* per invocation: the worker's closing log lines

vars == <<env, selenium, now, fs, browser, pc, action, request_id, response,
          api, jar, loc, made, launches, login_success, resp,
          attendance_success, posts, sent, wlog>>

(* ----------------------------- the inputs ------------------------------ *)

\* GREYTHR_URL: unset, empty, without and with the trailing slash.
UrlValues == {Unset, Str(<<>>), Str(<<"h">>), Str(<<"h", "/">>)}
\* GREYTHR_USERNAME, TELEGRAM_BOT_TOKEN, TELEGRAM_CHAT_ID.
NameValues == {Unset, Str(<<>>), Str(<<"x">>)}
\* GREYTHR_PASSWORD: unset, empty, "cHc=" (base64 of "pw"), "cHc" (padding
\* missing), "cH!c=" (a character outside the alphabet), "/w==" (the byte
\* 0xFF, not UTF-8).
PasswordValues ==
  {Unset, Str(<<>>), Str(<<28, 7, 28, PadChar>>), Str(<<28, 7, 28>>),
   Str(<<28, 7, OtherChar, 28, PadChar>>), Str(<<63, 48, PadChar, PadChar>>)}

EnvValues ==
  [url : UrlValues, username : NameValues, password : PasswordValues,
   token : NameValues, chat_id : NameValues]

Actions == {"Signin", "Signout"}

\* The selectors of username_selectors, in the order of the list.
username_selectors ==
  <<"name*=user", "name*=email", "type=email", "text:first-of-type">>

\* What a login page can look like to the driver: the username selectors
\* that resolve within the wait, whether input[type='password'] and
\* button[type='submit'] exist.
Doms ==
  [userSel : SUBSET {username_selectors[k] : k \in 1..Len(username_selectors)},
   hasPwd : BOOLEAN, hasSubmit : BOOLEAN]
NoDom == [userSel |-> {}, hasPwd |-> FALSE, hasSubmit |-> FALSE]

\* The cookies the portal may set.  Two carry the same name under different
\* domains; one has a path other than "/" and the secure flag.
CookieUniverse ==
  { [name |-> "access_token", value |-> "t1", domain |-> ".greythr.com",
     path |-> "/", secure |-> TRUE, httpOnly |-> TRUE],
    [name |-> "access_token", value |-> "t2", domain |-> "x.greythr.com",
     path |-> "/", secure |-> FALSE, httpOnly |-> FALSE],
    [name |-> "PLAY_SESSION", value |-> "p1", domain |-> "x.greythr.com",
     path |-> "/app", secure |-> TRUE, httpOnly |-> TRUE] }
CookieSets == SUBSET CookieUniverse

UrlKinds == {"dashboard", "home", "other"}

\* str(e) of a transport exception: a short text and one of 101 characters.
LongDetail == [k \in 1..101 |-> "e"]
ExcDetails == {<<"t", "o">>, LongDetail}
StatusCodes == {200, 401, 500}
PostOutcomes ==
  [kind : {"http"}, code : StatusCodes, detail : {<<>>}]
    \cup [kind : {"exc"}, code : {0}, detail : ExcDetails]
NoResp == [kind |-> "none", code |-> 0, detail |-> <<>>]

(* ------------------------------ initial -------------------------------- *)

NoApi ==
  [made |-> FALSE, base_url |-> <<>>, username |-> <<>>, password |-> <<>>,
   api_base |-> <<>>, attendance_api |-> <<>>, chat_id |-> <<>>]

NoLoc ==
  [sid |-> 0, driver |-> FALSE, dom |-> NoDom, username_field |-> "None",
   password_field |-> FALSE, typed |-> {}, submitted |-> {}, url |-> "None",
   captured |-> {}, ret |-> "None"]

NoResponse == [status |-> 0, success |-> FALSE, request_id |-> <<>>]

InitState(E) ==
  /\ env \in E
  /\ selenium \in BOOLEAN
  /\ now = 0
  /\ fs = {}
  /\ browser = [i \in Inv |-> "none"]
  /\ pc = [i \in Inv |-> "idle"]
  /\ action = [i \in Inv |-> "None"]
  /\ request_id = [i \in Inv |-> <<>>]
  /\ response = [i \in Inv |-> NoResponse]
  /\ api = [i \in Inv |-> NoApi]
  /\ jar = [i \in Inv |-> {}]
  /\ loc = [i \in Inv |-> NoLoc]
  /\ made = [i \in Inv |-> {}]
  /\ launches = [i \in Inv |-> 0]
  /\ login_success = [i \in Inv |-> "None"]
  /\ resp = [i \in Inv |-> NoResp]
  /\ attendance_success = [i \in Inv |-> "None"]
  /\ posts = [i \in Inv |-> <<>>]
  /\ sent = [i \in Inv |-> <<>>]
  /\ wlog = [i \in Inv |-> <<>>]

Init == InitState(EnvValues)

(* -------------------------- app.py: triggers ---------------------------- *)

\* time.time() advances.  It is read only by the handlers (request_id), so
\* the clock is followed while an invocation of I has yet to be triggered.
Tick(I) ==
  /\ now < MaxTime
  /\ \E i \in I : pc[i] = "idle"
  /\ now' = now + 1
  /\ UNCHANGED <<env, selenium, fs, browser, pc, action, request_id, response,
                 api, jar, loc, made, launches, login_success, resp,
                 attendance_success, posts, sent, wlog>>

\* A handler that builds the API object itself and answers 500 when the
\* constructor raises, instead of leaving construction to the worker.
TriggerChecked(i, a) ==
  /\ pc[i] = "idle"
  /\ action' = [action EXCEPT ![i] = a]
  /\ request_id' = [request_id EXCEPT ![i] = <<a, now>>]
  /\ response' = [response EXCEPT ![i] =
                    [status |-> IF MissingVars(env) = {} THEN 200 ELSE 500,
                     success |-> MissingVars(env) = {},
                     request_id |-> <<a, now>>]]
  /\ pc' = [pc EXCEPT ![i] = IF MissingVars(env) = {} THEN "w_start" ELSE "w_done"]
  /\ UNCHANGED <<env, selenium, now, fs, browser, api, jar, loc, made,
                 launches, login_success, resp, attendance_success, posts,
                 sent, wlog>>

\* signin() / signout(): the request id, asyncio.create_task of the worker,
\* and the immediate answer.  create_task raises only without a running
\* event loop, which an async view always has, so the handlers' except
\* branch (the 500 answer) is not taken.
Trigger(i, a) ==
  /\ pc[i] = "idle"
  /\ action' = [action EXCEPT ![i] = a]
  /\ request_id' = [request_id EXCEPT ![i] = <<a, now>>]
  /\ response' = [response EXCEPT ![i] =
                    [status |-> 200, success |-> TRUE, request_id |-> <<a, now>>]]
  /\ pc' = [pc EXCEPT ![i] = "w_start"]
  /\ UNCHANGED <<env, selenium, now, fs, browser, api, jar, loc, made,
                 launches, login_success, resp, attendance_success, posts,
                 sent, wlog>>

(* ------------------- greythr_api.py: construction ---------------------- *)

RECURSIVE rstrip(_)
rstrip(s) ==
  IF s # <<>> /\ Last(s) = "/" THEN rstrip(SubSeq(s, 1, Len(s) - 1)) ELSE s

\* InitError without the TELEGRAM_CHAT_ID check.
InitErrorNoChat(e) ==
  CASE Falsy(e.url)      -> "GREYTHR_URL"
    [] Falsy(e.username) -> "GREYTHR_USERNAME"
    [] Falsy(e.password) -> "GREYTHR_PASSWORD"
    [] Falsy(e.token)    -> "TELEGRAM_BOT_TOKEN"
    [] ~DecodePassword(e.password.val).ok -> "base64"
    [] OTHER -> "None"

\* The ValueError __init__ raises for environment e, "None" when it raises
\* nothing.  The checks run in the order of the source.
InitError(e) ==
  CASE Falsy(e.url)      -> "GREYTHR_URL"
    [] Falsy(e.username) -> "GREYTHR_USERNAME"
    [] Falsy(e.password) -> "GREYTHR_PASSWORD"
    [] Falsy(e.token)    -> "TELEGRAM_BOT_TOKEN"
    [] Falsy(e.chat_id)  -> "TELEGRAM_CHAT_ID"
    [] ~DecodePassword(e.password.val).ok -> "base64"
    [] OTHER -> "None"

\* The object __init__ builds when it raises nothing.
NewApi(e) ==
  LET base == IF Last(e.url.val) # "/" THEN Append(e.url.val, "/") ELSE e.url.val
      apib == Append(rstrip(base), "/v3/api")
  IN [made |-> TRUE, base_url |-> base, username |-> e.username.val,
      password |-> DecodePassword(e.password.val).val,
      api_base |-> apib,
      attendance_api |-> Append(apib, "/attendance/mark-attendance"),
      chat_id |-> e.chat_id.val]

\* background_attendance_worker up to GreytHRAttendanceAPI(): the ValueError
\* of a failed construction lands in the worker's except clause.
Construct(i) ==
  /\ pc[i] = "w_start"
  /\ IF InitError(env) = "None"
     THEN /\ api' = [api EXCEPT ![i] = NewApi(env)]
          /\ pc' = [pc EXCEPT ![i] = "l_entry"]
     ELSE /\ api' = api
          /\ pc' = [pc EXCEPT ![i] = "w_except"]
  /\ UNCHANGED <<env, selenium, now, fs, browser, action, request_id,
                 response, jar, loc, made, launches, login_success, resp,
                 attendance_success, posts, sent, wlog>>

(* ---------------- greythr_api.py: login_and_get_cookies ----------------- *)

user_data_dir(sid) == <<"chromium", sid>>
data_dir(sid) == <<"chromium", sid, "data">>
cache_dir(sid) == <<"chromium-cache", sid>>
temp_dirs(sid) == <<user_data_dir(sid), data_dir(sid), cache_dir(sid)>>

\* LoginEntry without the test of SELENIUM_AVAILABLE: the login goes on to
\* its directories whether or not the import succeeded.
LoginEntryUnchecked(i) ==
  /\ pc[i] = "l_entry"
  /\ pc' = [pc EXCEPT ![i] = "l_setup"]
  /\ UNCHANGED <<env, selenium, now, fs, browser, action, request_id,
                 response, api, jar, loc, made, launches, login_success, resp,
                 attendance_success, posts, sent, wlog>>

\* The capability check that opens login_and_get_cookies.
LoginEntry(i) ==
  /\ pc[i] = "l_entry"
  /\ IF ~selenium
     THEN /\ login_success' = [login_success EXCEPT ![i] = "False"]
          /\ pc' = [pc EXCEPT ![i] = "w_after_login"]
     ELSE /\ login_success' = login_success
          /\ pc' = [pc EXCEPT ![i] = "l_setup"]
  /\ UNCHANGED <<env, selenium, now, fs, browser, action, request_id,
                 response, api, jar, loc, made, launches, resp,
                 attendance_success, posts, sent, wlog>>

\* session_id = str(uuid.uuid4())[:8] and the os.makedirs loop, which stands
\* before the try: n of the three directories are created before a call
\* raises OSError (n = 3: none raises), and the OSError leaves the function.
\* S is where the session ids, N where the values of n are drawn from.
LoginSetup(i, S, N) ==
  /\ pc[i] = "l_setup"
  /\ \E sid \in S, n \in N :
       LET new == {temp_dirs(sid)[k] : k \in 1..n} IN
       /\ fs' = fs \cup new
       /\ made' = [made EXCEPT ![i] = @ \cup new]
       /\ IF n = 3
          THEN /\ loc' = [loc EXCEPT ![i].sid = sid]
               /\ pc' = [pc EXCEPT ![i] = "l_launch"]
          ELSE /\ loc' = loc
               /\ pc' = [pc EXCEPT ![i] = "w_except"]
  /\ UNCHANGED <<env, selenium, now, browser, action, request_id, response,
                 api, jar, launches, login_success, resp, attendance_success,
                 posts, sent, wlog>>

\* webdriver.Chrome(...) and the two timeouts: the browser runs, or the
\* constructor raises and driver stays None (ok drawn from OK).
LoginLaunch(i, OK) ==
  /\ pc[i] = "l_launch"
  /\ launches' = [launches EXCEPT ![i] = @ + 1]
  /\ \E ok \in OK :
       IF ok
       THEN /\ browser' = [browser EXCEPT ![i] = "running"]
            /\ loc' = [loc EXCEPT ![i].driver = TRUE]
            /\ pc' = [pc EXCEPT ![i] = "l_get"]
       ELSE /\ browser' = browser
            /\ loc' = loc
            /\ pc' = [pc EXCEPT ![i] = "l_except"]
  /\ UNCHANGED <<env, selenium, now, fs, action, request_id, response, api,
                 jar, made, login_success, resp, attendance_success, posts,
                 sent, wlog>>

\* driver.get(self.base_url) and the settle sleep: the page loads and shows
\* one of the pages of D, or the load times out (TimeoutException; ok
\* drawn from OK).
LoginGet(i, D, OK) ==
  /\ pc[i] = "l_get"
  /\ \E ok \in OK :
       IF ok
       THEN /\ \E d \in D : loc' = [loc EXCEPT ![i].dom = d]
            /\ pc' = [pc EXCEPT ![i] = "l_user"]
       ELSE /\ loc' = loc
            /\ pc' = [pc EXCEPT ![i] = "l_except"]
  /\ UNCHANGED <<env, selenium, now, fs, browser, action, request_id,
                 response, api, jar, made, launches, login_success, resp,
                 attendance_success, posts, sent, wlog>>

\* TrySelectors that stops one short of the end of the list.
RECURSIVE TrySelectorsShort(_, _)
TrySelectorsShort(k, dom) ==
  IF k >= Len(username_selectors) THEN "None"
  ELSE IF username_selectors[k] \in dom.userSel THEN username_selectors[k]
  ELSE TrySelectorsShort(k + 1, dom)

\* The loop over username_selectors from index k: the first selector whose
\* WebDriverWait returns an element ends the loop; a wait that raises moves
\* on to the next selector.  "None" when the list is exhausted.
RECURSIVE TrySelectors(_, _)
TrySelectors(k, dom) ==
  IF k > Len(username_selectors) THEN "None"
  ELSE IF username_selectors[k] \in dom.userSel THEN username_selectors[k]
  ELSE TrySelectors(k + 1, dom)

\* LoginFindUsername that types the username as soon as its field is
\* found, before the password field is looked for.
LoginFindUsernameTyping(i) ==
  /\ pc[i] = "l_user"
  /\ LET f == TrySelectors(1, loc[i].dom) IN
       IF f = "None"
       THEN /\ loc' = [loc EXCEPT ![i].ret = "False"]
            /\ pc' = [pc EXCEPT ![i] = "l_finally"]
       ELSE /\ loc' = [loc EXCEPT ![i].username_field = f,
                                  ![i].typed = {<<"username", api[i].username>>}]
            /\ pc' = [pc EXCEPT ![i] = "l_pwd"]
  /\ UNCHANGED <<env, selenium, now, fs, browser, action, request_id,
                 response, api, jar, made, launches, login_success, resp,
                 attendance_success, posts, sent, wlog>>

\* Find the username field, or return False.
LoginFindUsername(i) ==
  /\ pc[i] = "l_user"
  /\ LET f == TrySelectors(1, loc[i].dom) IN
       IF f = "None"
       THEN /\ loc' = [loc EXCEPT ![i].ret = "False"]
            /\ pc' = [pc EXCEPT ![i] = "l_finally"]
       ELSE /\ loc' = [loc EXCEPT ![i].username_field = f]
            /\ pc' = [pc EXCEPT ![i] = "l_pwd"]
  /\ UNCHANGED <<env, selenium, now, fs, browser, action, request_id,
                 response, api, jar, made, launches, login_success, resp,
                 attendance_success, posts, sent, wlog>>

\* Find the password field, or return False.
LoginFindPassword(i) ==
  /\ pc[i] = "l_pwd"
  /\ IF loc[i].dom.hasPwd
     THEN /\ loc' = [loc EXCEPT ![i].password_field = TRUE]
          /\ pc' = [pc EXCEPT ![i] = "l_fill"]
     ELSE /\ loc' = [loc EXCEPT ![i].ret = "False"]
          /\ pc' = [pc EXCEPT ![i] = "l_finally"]
  /\ UNCHANGED <<env, selenium, now, fs, browser, action, request_id,
                 response, api, jar, made, launches, login_success, resp,
                 attendance_success, posts, sent, wlog>>

\* clear() and send_keys() on both fields.
LoginFill(i) ==
  /\ pc[i] = "l_fill"
  /\ loc' = [loc EXCEPT ![i].typed =
               {<<"username", api[i].username>>, <<"password", api[i].password>>}]
  /\ pc' = [pc EXCEPT ![i] = "l_submit"]
  /\ UNCHANGED <<env, selenium, now, fs, browser, action, request_id,
                 response, api, jar, made, launches, login_success, resp,
                 attendance_success, posts, sent, wlog>>

\* What the try / bare except around the submit button does, given the page
\* and how click() ends ("ok": clicked; "refused": click() raises without
\* clicking; "late": the click is delivered and click() raises afterwards,
\* as when the page load it starts times out).
SubmitBy(dom, click) ==
  IF ~dom.hasSubmit THEN {"return"}
  ELSE CASE click = "ok"      -> {"click"}
         [] click = "refused" -> {"return"}
         [] OTHER             -> {"click", "return"}

LoginSubmit(i, C) ==
  /\ pc[i] = "l_submit"
  /\ \E click \in C :
       loc' = [loc EXCEPT ![i].submitted = SubmitBy(loc[i].dom, click)]
  /\ pc' = [pc EXCEPT ![i] = "l_url"]
  /\ UNCHANGED <<env, selenium, now, fs, browser, action, request_id,
                 response, api, jar, made, launches, login_success, resp,
                 attendance_success, posts, sent, wlog>>

\* LoginCheckUrl that takes the check seriously: a URL with neither
\* "dashboard" nor "home" makes the login return False.
LoginCheckUrlGating(i, U) ==
  /\ pc[i] = "l_url"
  /\ \E u \in U :
       IF u \in {"dashboard", "home"}
       THEN /\ loc' = [loc EXCEPT ![i].url = u]
            /\ pc' = [pc EXCEPT ![i] = "l_cookies"]
       ELSE /\ loc' = [loc EXCEPT ![i].url = u, ![i].ret = "False"]
            /\ pc' = [pc EXCEPT ![i] = "l_finally"]
  /\ UNCHANGED <<env, selenium, now, fs, browser, action, request_id,
                 response, api, jar, made, launches, login_success, resp,
                 attendance_success, posts, sent, wlog>>

\* The settle sleep and the advisory look at driver.current_url: either
\* branch only logs.
LoginCheckUrl(i, U) ==
  /\ pc[i] = "l_url"
  /\ \E u \in U : loc' = [loc EXCEPT ![i].url = u]
  /\ pc' = [pc EXCEPT ![i] = "l_cookies"]
  /\ UNCHANGED <<env, selenium, now, fs, browser, action, request_id,
                 response, api, jar, made, launches, login_success, resp,
                 attendance_success, posts, sent, wlog>>

\* selenium_cookies = driver.get_cookies(), one of the sets of CS, or the
\* call raises (ok drawn from OK).
LoginGetCookies(i, CS, OK) ==
  /\ pc[i] = "l_cookies"
  /\ \E ok \in OK :
       IF ok
       THEN /\ \E cs \in CS : loc' = [loc EXCEPT ![i].captured = cs]
            /\ pc' = [pc EXCEPT ![i] = "l_transfer"]
       ELSE /\ loc' = loc
            /\ pc' = [pc EXCEPT ![i] = "l_except"]
  /\ UNCHANGED <<env, selenium, now, fs, browser, action, request_id,
                 response, api, jar, made, launches, login_success, resp,
                 attendance_success, posts, sent, wlog>>

\* create_cookie called without the path and secure arguments: requests'
\* defaults ("/", False) take their place.
create_cookie_defaults(c) ==
  [name |-> c.name, value |-> c.value, domain |-> c.domain, path |-> "/",
   secure |-> FALSE]

\* requests' create_cookie for one Selenium cookie dict, with the keyword
\* arguments the loop passes: name, value, domain, path and secure are
\* taken over, the dict's other keys are not.
create_cookie(c) ==
  [name |-> c.name, value |-> c.value, domain |-> c.domain, path |-> c.path,
   secure |-> c.secure]

\* RequestsCookieJar.set: the jar holds one cookie per (domain, path, name).
jar_set(j, c) ==
  {x \in j : ~(x.domain = c.domain /\ x.path = c.path /\ x.name = c.name)}
    \cup {create_cookie(c)}

\* The transfer loop over selenium_cookies.
RECURSIVE transfer(_, _)
transfer(j, cs) ==
  IF cs = {} THEN j
  ELSE LET c == CHOOSE x \in cs : TRUE IN transfer(jar_set(j, c), cs \ {c})

\* LoginTransfer when the API objects share one requests session: the
\* cookies land in every invocation's jar.
LoginTransferShared(i) ==
  /\ pc[i] = "l_transfer"
  /\ jar' = [j \in Inv |-> transfer(jar[j], loc[i].captured)]
  /\ pc' = [pc EXCEPT ![i] = "l_important"]
  /\ UNCHANGED <<env, selenium, now, fs, browser, action, request_id,
                 response, api, loc, made, launches, login_success, resp,
                 attendance_success, posts, sent, wlog>>

LoginTransfer(i) ==
  /\ pc[i] = "l_transfer"
  /\ jar' = [jar EXCEPT ![i] = transfer(@, loc[i].captured)]
  /\ pc' = [pc EXCEPT ![i] = "l_important"]
  /\ UNCHANGED <<env, selenium, now, fs, browser, action, request_id,
                 response, api, loc, made, launches, login_success, resp,
                 attendance_success, posts, sent, wlog>>

important_cookies == {"access_token", "PLAY_SESSION"}

\* RequestsCookieJar.get(name) raises CookieConflictError when the jar
\* holds more than one cookie of that name.
jar_get_raises(j, name) == Cardinality({x \in j : x.name = name}) > 1

\* The logging loop over important_cookies, then return True.
LoginLogImportant(i) ==
  /\ pc[i] = "l_important"
  /\ IF \E n \in important_cookies : jar_get_raises(jar[i], n)
     THEN /\ loc' = loc
          /\ pc' = [pc EXCEPT ![i] = "l_except"]
     ELSE /\ loc' = [loc EXCEPT ![i].ret = "True"]
          /\ pc' = [pc EXCEPT ![i] = "l_finally"]
  /\ UNCHANGED <<env, selenium, now, fs, browser, action, request_id,
                 response, api, jar, made, launches, login_success, resp,
                 attendance_success, posts, sent, wlog>>

\* except Exception: log and return False.
LoginExcept(i) ==
  /\ pc[i] = "l_except"
  /\ loc' = [loc EXCEPT ![i].ret = "False"]
  /\ pc' = [pc EXCEPT ![i] = "l_finally"]
  /\ UNCHANGED <<env, selenium, now, fs, browser, action, request_id,
                 response, api, jar, made, launches, login_success, resp,
                 attendance_success, posts, sent, wlog>>

\* shutil.rmtree(d) inside its own try: removes the tree under d ("ok"), or
\* raises, is logged, and leaves it.
rmtree(f, d, outcome) ==
  IF d \in f /\ outcome = "ok"
  THEN {x \in f : ~(Len(x) >= Len(d) /\ SubSeq(x, 1, Len(d)) = d)}
  ELSE f

\* The cleanup loop of the finally clause over [user_data_dir, cache_dir].
cleanup(f, sid, r1, r2) ==
  rmtree(rmtree(f, user_data_dir(sid), r1), cache_dir(sid), r2)

\* The finally clause: driver.quit() when a driver exists, then the cleanup
\* loop.  A quit() that raises leaves the clause at once: the exception
\* replaces the pending return and reaches the caller of the function.
LoginFinally(i, Q, R) ==
  /\ pc[i] = "l_finally"
  /\ \E q \in Q, r1 \in R, r2 \in R, b \in {"running", "quit"} :
       IF loc[i].driver /\ q = "raised"
       THEN /\ browser' = [browser EXCEPT ![i] = b]
            /\ fs' = fs
            /\ loc' = [loc EXCEPT ![i] = NoLoc]
            /\ pc' = [pc EXCEPT ![i] = "w_except"]
       ELSE /\ browser' = [browser EXCEPT ![i] =
                             IF loc[i].driver THEN "quit" ELSE @]
            /\ fs' = cleanup(fs, loc[i].sid, r1, r2)
            /\ loc' = loc
            /\ pc' = [pc EXCEPT ![i] = "l_return"]
  /\ UNCHANGED <<env, selenium, now, action, request_id, response, api, jar,
                 made, launches, login_success, resp, attendance_success,
                 posts, sent, wlog>>

\* The return that was pending while the finally clause ran: the worker's
\* login_success takes the value and the locals are gone.
LoginReturn(i) ==
  /\ pc[i] = "l_return"
  /\ login_success' = [login_success EXCEPT ![i] = loc[i].ret]
  /\ loc' = [loc EXCEPT ![i] = NoLoc]
  /\ pc' = [pc EXCEPT ![i] = "w_after_login"]
  /\ UNCHANGED <<env, selenium, now, fs, browser, action, request_id,
                 response, api, jar, made, launches, resp,
                 attendance_success, posts, sent, wlog>>

(* ------------- app.py: the worker between login and marking ------------- *)

\* AfterLogin without the test of login_success: the worker goes on to
\* mark_attendance whatever the login returned.
AfterLoginUnchecked(i) ==
  /\ pc[i] = "w_after_login"
  /\ pc' = [pc EXCEPT ![i] = "m_start"]
  /\ UNCHANGED <<env, selenium, now, fs, browser, action, request_id,
                 response, api, jar, loc, made, launches, login_success, resp,
                 attendance_success, posts, sent, wlog>>

\* if not login_success: log and return, without the closing log line.
AfterLogin(i) ==
  /\ pc[i] = "w_after_login"
  /\ IF login_success[i] = "True"
     THEN /\ wlog' = wlog
          /\ pc' = [pc EXCEPT ![i] = "m_start"]
     ELSE /\ wlog' = [wlog EXCEPT ![i] = Append(@, "login_failed")]
          /\ pc' = [pc EXCEPT ![i] = "w_done"]
  /\ UNCHANGED <<env, selenium, now, fs, browser, action, request_id,
                 response, api, jar, loc, made, launches, login_success, resp,
                 attendance_success, posts, sent>>

(* ------------- greythr_api.py: notifications and marking --------------- *)

\* send_telegram_message without its except clause: a failed delivery
\* raises.
send_telegram_message_raising(d) == [raised |-> ~d, value |-> d]

\* send_telegram_message when the delivery succeeds (d) or fails (~d): the
\* except clause turns every delivery error into the value False, so the
\* call never raises.
send_telegram_message(d) == [raised |-> FALSE, value |-> d]

Message(kind, i, code, detail, d) ==
  [kind |-> kind, action |-> action[i], user |-> api[i].username,
   code |-> code, detail |-> detail, delivered |-> d]

\* MarkNotifyStart that announces success at once, before the request is
\* made.
MarkNotifyStartOptimistic(i, TG) ==
  /\ pc[i] = "m_start"
  /\ \E d \in TG :
       /\ sent' = [sent EXCEPT ![i] = Append(@, Message("success", i, 0, <<>>, d))]
       /\ pc' = [pc EXCEPT ![i] =
                   IF send_telegram_message(d).raised THEN "w_except" ELSE "m_post"]
  /\ UNCHANGED <<env, selenium, now, fs, browser, action, request_id,
                 response, api, jar, loc, made, launches, login_success, resp,
                 attendance_success, posts, wlog>>

\* The "Processing..." notification that opens mark_attendance; it stands
\* before the try.
MarkNotifyStart(i, TG) ==
  /\ pc[i] = "m_start"
  /\ \E d \in TG :
       /\ sent' = [sent EXCEPT ![i] = Append(@, Message("processing", i, 0, <<>>, d))]
       /\ pc' = [pc EXCEPT ![i] =
                   IF send_telegram_message(d).raised THEN "w_except" ELSE "m_post"]
  /\ UNCHANGED <<env, selenium, now, fs, browser, action, request_id,
                 response, api, jar, loc, made, launches, login_success, resp,
                 attendance_success, posts, wlog>>

\* MarkPost in a worker that calls mark_attendance() without the action,
\* so that the parameter's default "Signin" goes into the URL.
MarkPostDefault(i, PO) ==
  /\ pc[i] = "m_post"
  /\ \E o \in PO :
       /\ posts' = [posts EXCEPT ![i] =
                      Append(@, [url |-> api[i].attendance_api,
                                 query |-> <<"action", "Signin">>,
                                 body |-> {}, cookies |-> jar[i], outcome |-> o])]
       /\ resp' = [resp EXCEPT ![i] = o]
  /\ pc' = [pc EXCEPT ![i] = "m_final"]
  /\ UNCHANGED <<env, selenium, now, fs, browser, action, request_id,
                 response, api, jar, loc, made, launches, login_success,
                 attendance_success, sent, wlog>>

\* self.session.post(url, json={}, timeout=90): one request, carrying the
\* session's cookies, answered with a status code or ended by an exception.
MarkPost(i, PO) ==
  /\ pc[i] = "m_post"
  /\ \E o \in PO :
       /\ posts' = [posts EXCEPT ![i] =
                      Append(@, [url |-> api[i].attendance_api,
                                 query |-> <<"action", action[i]>>,
                                 body |-> {}, cookies |-> jar[i], outcome |-> o])]
       /\ resp' = [resp EXCEPT ![i] = o]
  /\ pc' = [pc EXCEPT ![i] = "m_final"]
  /\ UNCHANGED <<env, selenium, now, fs, browser, action, request_id,
                 response, api, jar, loc, made, launches, login_success,
                 attendance_success, sent, wlog>>

\* str(e)[:100]
DetailLimit == 100
Truncate(s) == SubSeq(s, 1, IF Len(s) < DetailLimit THEN Len(s) ELSE DetailLimit)

\* FinalMessage with the 200 test replaced by "any answer that is not a
\* server error", and the status code left out of the failure message.
FinalMessageLoose(i, o, d) ==
  CASE o.kind = "http" /\ o.code < 500 -> Message("success", i, 0, <<>>, d)
    [] o.kind = "http" -> Message("failed", i, 0, <<>>, d)
    [] OTHER -> Message("exception", i, 0, Truncate(o.detail), d)

\* The notification mark_attendance builds for the outcome o of the POST.
FinalMessage(i, o, d) ==
  CASE o.kind = "http" /\ o.code = 200 -> Message("success", i, 0, <<>>, d)
    [] o.kind = "http" -> Message("failed", i, o.code, <<>>, d)
    [] OTHER -> Message("exception", i, 0, Truncate(o.detail), d)

\* The value mark_attendance returns for the outcome o of the POST.
MarkResult(o) == IF o.kind = "http" /\ o.code = 200 THEN "True" ELSE "False"

\* MarkFinal with a retry: a response other than 200, or an exception, sends
\* the request again.
MarkFinalRetry(i, TG) ==
  /\ pc[i] = "m_final"
  /\ \E d \in TG :
       /\ sent' = [sent EXCEPT ![i] = Append(@, FinalMessage(i, resp[i], d))]
       /\ IF MarkResult(resp[i]) = "True"
          THEN /\ attendance_success' = [attendance_success EXCEPT ![i] = "True"]
               /\ pc' = [pc EXCEPT ![i] = "w_after_mark"]
          ELSE /\ attendance_success' = attendance_success
               /\ pc' = [pc EXCEPT ![i] = "m_post"]
  /\ resp' = [resp EXCEPT ![i] = NoResp]
  /\ UNCHANGED <<env, selenium, now, fs, browser, action, request_id,
                 response, api, jar, loc, made, launches, login_success,
                 posts, wlog>>

\* The rest of mark_attendance: classify the response, notify, return.  A
\* send that raised inside the try would be caught by except Exception,
\* which notifies once more and returns False; one that raised inside the
\* except clause would leave the function.
MarkFinal(i, TG) ==
  /\ pc[i] = "m_final"
  /\ \E d1 \in TG, d2 \in TG :
       LET o == resp[i]
           m1 == FinalMessage(i, o, d1)
           r1 == send_telegram_message(d1)
           m2 == Message("exception", i, 0, <<"s", "e", "n", "d">>, d2)
           r2 == send_telegram_message(d2)
       IN IF ~r1.raised
          THEN /\ sent' = [sent EXCEPT ![i] = Append(@, m1)]
               /\ attendance_success' = [attendance_success EXCEPT ![i] = MarkResult(o)]
               /\ pc' = [pc EXCEPT ![i] = "w_after_mark"]
          ELSE IF o.kind = "http" /\ ~r2.raised
          THEN /\ sent' = [sent EXCEPT ![i] = Append(Append(@, m1), m2)]
               /\ attendance_success' = [attendance_success EXCEPT ![i] = "False"]
               /\ pc' = [pc EXCEPT ![i] = "w_after_mark"]
          ELSE /\ sent' = [sent EXCEPT ![i] =
                             IF o.kind = "http" THEN Append(Append(@, m1), m2)
                             ELSE Append(@, m1)]
               /\ attendance_success' = attendance_success
               /\ pc' = [pc EXCEPT ![i] = "w_except"]
  /\ resp' = [resp EXCEPT ![i] = NoResp]
  /\ UNCHANGED <<env, selenium, now, fs, browser, action, request_id,
                 response, api, jar, loc, made, launches, login_success,
                 posts, wlog>>

(* --------------------- app.py: the worker's ending ---------------------- *)

\* AfterMark in a worker that writes the result of mark_attendance into
\* the answer of its trigger.
AfterMarkAnswering(i) ==
  /\ pc[i] = "w_after_mark"
  /\ wlog' = [wlog EXCEPT ![i] =
                @ \o <<IF attendance_success[i] = "True" THEN "completed" ELSE "failed",
                       "finished">>]
  /\ response' = [response EXCEPT ![i].success = (attendance_success[i] = "True")]
  /\ pc' = [pc EXCEPT ![i] = "w_done"]
  /\ UNCHANGED <<env, selenium, now, fs, browser, action, request_id,
                 api, jar, loc, made, launches, login_success, resp,
                 attendance_success, posts, sent>>

\* The success / failure log line and the closing "Background job finished".
AfterMark(i) ==
  /\ pc[i] = "w_after_mark"
  /\ wlog' = [wlog EXCEPT ![i] =
                @ \o <<IF attendance_success[i] = "True" THEN "completed" ELSE "failed",
                       "finished">>]
  /\ pc' = [pc EXCEPT ![i] = "w_done"]
  /\ UNCHANGED <<env, selenium, now, fs, browser, action, request_id,
                 response, api, jar, loc, made, launches, login_success, resp,
                 attendance_success, posts, sent>>

\* WorkerExcept narrowed to except ValueError: the constructor's error is
\* caught, any other exception leaves the background task.
WorkerExceptNarrow(i) ==
  /\ pc[i] = "w_except"
  /\ IF ~api[i].made
     THEN /\ wlog' = [wlog EXCEPT ![i] = @ \o <<"exception", "finished">>]
          /\ pc' = [pc EXCEPT ![i] = "w_done"]
     ELSE /\ wlog' = wlog
          /\ pc' = [pc EXCEPT ![i] = "w_raised"]
  /\ UNCHANGED <<env, selenium, now, fs, browser, action, request_id,
                 response, api, jar, loc, made, launches, login_success, resp,
                 attendance_success, posts, sent>>

\* except Exception as e: the log line, then the closing one.
WorkerExcept(i) ==
  /\ pc[i] = "w_except"
  /\ wlog' = [wlog EXCEPT ![i] = @ \o <<"exception", "finished">>]
  /\ pc' = [pc EXCEPT ![i] = "w_done"]
  /\ UNCHANGED <<env, selenium, now, fs, browser, action, request_id,
                 response, api, jar, loc, made, launches, login_success, resp,
                 attendance_success, posts, sent>>

(* --------------------------- specifications ----------------------------- *)

ClickOutcomes == {"ok", "refused", "late"}
QuitOutcomes == {"ok", "raised"}
RmOutcomes == {"ok", "failed"}

\* What the collaborators of an invocation (filesystem, browser, portal,
\* Telegram) may do: every outcome the code provides for.
AnyWorld ==
  [sids |-> Sids, mkdirs |-> 0..3, launch |-> BOOLEAN, get |-> BOOLEAN,
   doms |-> Doms, click |-> ClickOutcomes, urls |-> UrlKinds,
   cookies |-> BOOLEAN, cookieSets |-> CookieSets, quit |-> QuitOutcomes,
   rm |-> RmOutcomes, telegram |-> BOOLEAN, post |-> PostOutcomes]

\* One step of invocation i in world w.
Step(i, w) ==
  \/ \E a \in Actions : Trigger(i, a)
  \/ Construct(i)
  \/ LoginEntry(i)
  \/ LoginSetup(i, w.sids, w.mkdirs)
  \/ LoginLaunch(i, w.launch)
  \/ LoginGet(i, w.doms, w.get)
  \/ LoginFindUsername(i)
  \/ LoginFindPassword(i)
  \/ LoginFill(i)
  \/ LoginSubmit(i, w.click)
  \/ LoginCheckUrl(i, w.urls)
  \/ LoginGetCookies(i, w.cookieSets, w.cookies)
  \/ LoginTransfer(i)
  \/ LoginLogImportant(i)
  \/ LoginExcept(i)
  \/ LoginFinally(i, w.quit, w.rm)
  \/ LoginReturn(i)
  \/ AfterLogin(i)
  \/ MarkNotifyStart(i, w.telegram)
  \/ MarkPost(i, w.post)
  \/ MarkFinal(i, w.telegram)
  \/ AfterMark(i)
  \/ WorkerExcept(i)

\* One trigger invocation from request to the end of its background task,
\* under every environment and every outcome of its collaborators.
Next == Tick({1}) \/ Step(1, AnyWorld)

Spec == Init /\ [][Next]_vars

(* ----------------------- two invocations at once ------------------------ *)

\* A complete configuration: URL, username, "cHc=" as the secret, token and
\* chat id.
GoodEnv ==
  [url |-> Str(<<"h">>), username |-> Str(<<"x">>),
   password |-> Str(<<28, 7, 28, PadChar>>), token |-> Str(<<"x">>),
   chat_id |-> Str(<<"x">>)]

\* The page the portal serves and two of the cookie sets it may hand out.
PortalDom == [userSel |-> {"name*=user"}, hasPwd |-> TRUE, hasSubmit |-> TRUE]
PortalCookieSets ==
  {{c} : c \in {x \in CookieUniverse : x.domain = "x.greythr.com"}}

\* Collaborators on a day when the portal and Telegram work: the first
\* os.makedirs may still fail and the page load may still time out; the
\* session ids and the cookies are drawn as in AnyWorld's sets.
PairWorld ==
  [sids |-> Sids, mkdirs |-> {0, 3}, launch |-> {TRUE}, get |-> BOOLEAN,
   doms |-> {PortalDom}, click |-> {"ok"}, urls |-> {"dashboard"},
   cookies |-> {TRUE}, cookieSets |-> PortalCookieSets, quit |-> {"ok"},
   rm |-> {"ok"}, telegram |-> {TRUE},
   post |-> {[kind |-> "http", code |-> 200, detail |-> <<>>]}]

PairInit == InitState({GoodEnv})

\* Both invocations, their handlers and background tasks interleaved step
\* by step: each request is served in its own thread, and nothing in the
\* source orders one task's steps against the other's.
PairNext == Tick(Inv) \/ \E i \in Inv : Step(i, PairWorld)

PairSpec == PairInit /\ [][PairNext]_vars

(* ------------------------------- claims --------------------------------- *)

\* The program points of invocation i that lie after login_and_get_cookies
\* has finished, by a return or by an exception that left it.
PastLogin ==
  {"l_return", "w_after_login", "m_start", "m_post", "m_final",
   "w_after_mark", "w_except", "w_done"}

\* mark_attendance has returned to the worker.
Marked(i) == pc[i] \in {"w_after_mark", "w_done"} /\ login_success[i] = "True"

\* C1: at-most-once actuation.  In every execution of an invocation the
\* portal receives at most one mark-attendance POST from it; in particular
\* none follows a response other than 200 or a transport exception.
C1_AtMostOnePost ==
  \A i \in Inv : Len(posts[i]) <= 1

\* C1, witness: the worker has ended after a POST that was answered 500.
C1_Witness ==
  \E i \in Inv :
    /\ pc[i] = "w_done"
    /\ Len(posts[i]) = 1
    /\ posts[i][1].outcome.kind = "http" /\ posts[i][1].outcome.code = 500

\* C2: ordering of the session bridge.  A POST is issued, or about to be,
\* only in an invocation whose construction succeeded and whose
\* login_and_get_cookies returned True; an invocation whose login returned
\* False or whose construction raised has issued none.
C2_PostOnlyAfterLogin ==
  \A i \in Inv :
    /\ (posts[i] # <<>> \/ pc[i] \in {"m_start", "m_post", "m_final"})
         => (api[i].made /\ login_success[i] = "True")
    /\ (login_success[i] = "False" \/ ~api[i].made) => posts[i] = <<>>

\* C2, witness: a POST has been issued, after a login that returned True.
C2_Witness ==
  \E i \in Inv : Len(posts[i]) = 1 /\ login_success[i] = "True"

\* C3: guaranteed teardown.  Once login_and_get_cookies has finished, on
\* whatever path, the browser it started is no longer running and none of
\* the directories it created exists.
C3_Teardown ==
  \A i \in Inv :
    pc[i] \in PastLogin => (browser[i] # "running" /\ made[i] \cap fs = {})

\* C4: outcome classification.  When mark_attendance has returned, its last
\* notification and its return value classify the outcome of the POST: 200
\* is success (True); another status is failed, with that status code
\* (False); a transport exception is exception, with the exception text (cut
\* at 100 characters) and no status code (False).
C4_Classification ==
  \A i \in Inv :
    Marked(i) =>
      LET o == posts[i][Len(posts[i])].outcome
          m == sent[i][Len(sent[i])]
      IN /\ (o.kind = "http" /\ o.code = 200) =>
              (m.kind = "success" /\ attendance_success[i] = "True")
         /\ (o.kind = "http" /\ o.code # 200) =>
              (m.kind = "failed" /\ m.code = o.code
               /\ attendance_success[i] = "False")
         /\ o.kind = "exc" =>
              /\ m.kind = "exception" /\ m.code = 0
              /\ attendance_success[i] = "False"
              /\ Len(o.detail) <= 100 => m.detail = o.detail
              /\ Len(o.detail) > 100 => m.detail = SubSeq(o.detail, 1, 100)

\* C4, witness: mark_attendance has returned after a POST answered 401.
C4_Witness ==
  \E i \in Inv :
    /\ Marked(i)
    /\ posts[i][1].outcome.kind = "http" /\ posts[i][1].outcome.code = 401
    /\ sent[i][Len(sent[i])].code = 401

\* C5: a missing or empty required value fails the construction.  Once the
\* worker has run the constructor under an environment in which a required
\* variable is unset or empty, no object exists, the worker is in or past
\* its except clause, and the invocation has launched no browser, created
\* no directory, sent no HTTP request and attempted no notification.
C5_MissingConfigFails ==
  \A i \in Inv :
    (MissingVars(env) # {} /\ pc[i] \notin {"idle", "w_start"}) =>
      /\ ~api[i].made
      /\ pc[i] \in {"w_except", "w_done"}
      /\ (pc[i] = "w_done" => wlog[i] = <<"exception", "finished">>)
      /\ launches[i] = 0 /\ browser[i] = "none"
      /\ made[i] = {} /\ fs = {}
      /\ posts[i] = <<>> /\ sent[i] = <<>>

\* C5, witness: the worker has ended under an environment in which
\* TELEGRAM_CHAT_ID alone is missing.
C5_Witness ==
  \E i \in Inv : pc[i] = "w_done" /\ MissingVars(env) = {"chat_id"}

\* RFC 4648 base64: only characters of the alphabet, in groups of four, with
\* at most two pad characters and only at the very end.
WellFormedB64(s) ==
  /\ Len(s) % 4 = 0
  /\ \A k \in 1..Len(s) : s[k] <= PadChar
  /\ \A k \in 1..Len(s) : s[k] = PadChar => k >= Len(s) - 1
  /\ (Len(s) > 0 /\ s[Len(s) - 1] = PadChar) => s[Len(s)] = PadChar

\* C6: a secret that cannot be decoded fails the construction.  Under a
\* non-empty GREYTHR_PASSWORD that is not well-formed base64, or whose
\* decoded bytes are not UTF-8, the constructor builds no object and the
\* invocation launches no browser and issues no POST.
C6_UndecodableSecretFails ==
  \A i \in Inv :
    ( /\ MissingVars(env) = {}
      /\ \/ ~WellFormedB64(env.password.val)
         \/ ~Utf8Ok(b64decode(env.password.val).bytes, 1)
      /\ pc[i] \notin {"idle", "w_start"} )
    => (~api[i].made /\ launches[i] = 0 /\ posts[i] = <<>>)

\* C7, as stated: under an environment in which a required value is absent
\* no signin or signout trigger is ever answered with success.
C7_NeverAccepted ==
  \A i \in Inv : MissingVars(env) # {} => ~response[i].success

\* C7, amended: under an environment in which a required value is absent a
\* trigger is still accepted (status 200, success), and it is the
\* invocation's background worker that stops at the constructor: it never
\* gets past its except clause and never holds an API object.
C7_AcceptedThenAborted ==
  \A i \in Inv :
    (MissingVars(env) # {} /\ pc[i] # "idle") =>
      /\ response[i].success /\ response[i].status = 200
      /\ response[i].request_id = request_id[i]
      /\ pc[i] \in {"w_start", "w_except", "w_done"}
      /\ ~api[i].made

\* C7, witness: a trigger has been accepted and its worker has ended, under
\* an environment without GREYTHR_URL.
C7_Witness ==
  \E i \in Inv :
    /\ "url" \in MissingVars(env)
    /\ response[i].success
    /\ pc[i] = "w_done"

\* C8: cookie transfer is attribute-preserving.  Once the transfer loop has
\* run, and so when login_and_get_cookies returns True, the session's jar
\* holds for every captured cookie a cookie of the same name, value,
\* domain, path and secure flag.
C8_CookiesPreserved ==
  \A i \in Inv :
    ( \/ pc[i] = "l_important"
      \/ (pc[i] \in {"l_finally", "l_return"} /\ loc[i].ret = "True") )
    => \A c \in loc[i].captured :
         \E x \in jar[i] :
           /\ x.name = c.name /\ x.value = c.value
           /\ x.domain = c.domain /\ x.path = c.path /\ x.secure = c.secure

\* C8, witness: a login is returning True with two captured cookies, one of
\* them secure and under a path other than "/".
C8_Witness ==
  \E i \in Inv :
    /\ pc[i] = "l_return" /\ loc[i].ret = "True"
    /\ Cardinality(loc[i].captured) = 2
    /\ \E c \in loc[i].captured : c.path = "/app" /\ c.secure

\* The program points of login_and_get_cookies after the selector loop.
AfterLocate ==
  {"l_pwd", "l_fill", "l_submit", "l_url", "l_cookies", "l_transfer",
   "l_important", "l_except", "l_finally", "l_return"}

\* C9: selector fallback.  After the selector loop the username field is
\* set exactly when one of the four selectors matches on the page, and it
\* is the match that comes first in the list; when none matches nothing is
\* typed, nothing submitted, no cookie captured or transferred, and the
\* login returns False; a login returns True only on a page where some
\* selector matched and the password field exists.
C9_SelectorFallback ==
  \A i \in Inv :
    pc[i] \in AfterLocate =>
      LET d == loc[i].dom
          hits == {k \in 1..4 : username_selectors[k] \in d.userSel}
      IN /\ hits # {} =>
              /\ loc[i].username_field \in d.userSel
              /\ \A k \in hits :
                   \A m \in 1..4 :
                     username_selectors[m] = loc[i].username_field => m <= k
         /\ hits = {} =>
              /\ loc[i].username_field = "None"
              /\ loc[i].typed = {} /\ loc[i].submitted = {}
              /\ loc[i].captured = {} /\ jar[i] = {}
              /\ loc[i].ret # "True"
              /\ pc[i] = "l_return" => loc[i].ret = "False"
         /\ loc[i].ret = "True" => (hits # {} /\ d.hasPwd)

\* C9, witness: a login is returning True on a page where input[type=email]
\* is the only username selector that matches.
C9_Witness ==
  \E i \in Inv :
    /\ pc[i] = "l_return" /\ loc[i].ret = "True"
    /\ loc[i].dom.userSel = {"type=email"}
    /\ loc[i].username_field = "type=email"

\* C10: the notifications do not steer mark_attendance.  Whatever the
\* delivery results, an invocation whose login returned True never ends up
\* in the worker's except clause, and when mark_attendance has returned it
\* has issued exactly one POST (to the attendance URL, with the action, an
\* empty body and the session's cookies), attempted exactly two
\* notifications, and returned True exactly when that POST was answered 200.
C10_ReporterInert ==
  \A i \in Inv :
    login_success[i] = "True" =>
      /\ pc[i] # "w_except"
      /\ pc[i] \in {"m_final", "w_after_mark", "w_done"} =>
           /\ Len(posts[i]) = 1
           /\ posts[i][1].url = api[i].attendance_api
           /\ posts[i][1].query = <<"action", action[i]>>
           /\ posts[i][1].body = {}
           /\ posts[i][1].cookies = jar[i]
      /\ pc[i] \in {"w_after_mark", "w_done"} =>
           /\ Len(sent[i]) = 2
           /\ (attendance_success[i] = "True") <=>
                (posts[i][1].outcome.kind = "http" /\ posts[i][1].outcome.code = 200)
           /\ attendance_success[i] \in {"True", "False"}

\* C10, witness: mark_attendance has returned True although both
\* notifications failed to be delivered.
C10_Witness ==
  \E i \in Inv :
    /\ pc[i] = "w_done" /\ attendance_success[i] = "True"
    /\ Len(sent[i]) = 2
    /\ ~sent[i][1].delivered /\ ~sent[i][2].delivered

\* The notifications of invocation i that report a final outcome.
FinalKinds == {"success", "failed", "exception"}
Finals(i) == {k \in 1..Len(sent[i]) : sent[i][k].kind \in FinalKinds}

\* How the three branches of mark_attendance divide the outcomes of the POST.
Classify(o) ==
  IF o.kind = "exc" THEN "exception"
  ELSE IF o.code = 200 THEN "success" ELSE "failed"

\* C11: one final-outcome notification per marking.  An invocation attempts
\* at most one final-outcome notification; none is attempted while
\* mark_attendance has yet to see the outcome of its POST; one that was
\* attempted is the last notification, follows exactly one POST, names the
\* invocation's action and has the kind that classifies the outcome of that
\* POST (200: success); and when mark_attendance has returned exactly one
\* was attempted, after the opening "processing" notification.
C11_OneFinalNotification ==
  \A i \in Inv :
    /\ Cardinality(Finals(i)) <= 1
    /\ pc[i] \in {"m_start", "m_post", "m_final"} => Finals(i) = {}
    /\ \A k \in Finals(i) :
         /\ k = Len(sent[i])
         /\ Len(posts[i]) = 1
         /\ sent[i][k].kind = Classify(posts[i][1].outcome)
         /\ sent[i][k].action = action[i]
    /\ Marked(i) =>
         /\ Cardinality(Finals(i)) = 1
         /\ sent[i][1].kind = "processing"

\* C11, witness: a Signin whose POST was answered 200 has ended with one
\* success notification naming Signin.
C11_Witness ==
  \E i \in Inv :
    /\ pc[i] = "w_done" /\ action[i] = "Signin"
    /\ Len(posts[i]) = 1 /\ posts[i][1].outcome.code = 200
    /\ Finals(i) = {2}
    /\ sent[i][2].kind = "success" /\ sent[i][2].action = "Signin"

\* C12: every invocation is reported.  When the background task of an
\* invocation has ended, on whatever path (construction failed, login
\* failed, marking done), exactly one final-outcome notification has been
\* attempted for it.
C12_EveryInvocationReported ==
  \A i \in Inv : pc[i] = "w_done" => Cardinality(Finals(i)) = 1

\* The program points of an invocation: before its trigger, inside the
\* background task, and the task's normal end.
WorkerPoints ==
  {"idle", "w_start", "l_entry", "l_setup", "l_launch", "l_get", "l_user",
   "l_pwd", "l_fill", "l_submit", "l_url", "l_cookies", "l_transfer",
   "l_important", "l_except", "l_finally", "l_return", "w_after_login",
   "m_start", "m_post", "m_final", "w_after_mark", "w_except", "w_done"}

\* C13: core errors stay inside the background task.  An invocation is
\* always at a point of the handler or the task, never at one where an
\* exception has left the task; once triggered it has been answered (200,
\* success, its request_id) whatever the task does; and a task that ended
\* after an error ended by one of its own log lines: a failed
\* construction and an exception that left login_and_get_cookies through
\* the except clause, a login that returned False through "Login failed",
\* a POST that raised through the failure line.
C13_ErrorsContained ==
  \A i \in Inv :
    /\ pc[i] \in WorkerPoints
    /\ pc[i] # "idle" =>
         response[i] = [status |-> 200, success |-> TRUE,
                        request_id |-> request_id[i]]
    /\ pc[i] = "w_done" =>
         /\ ~api[i].made => wlog[i] = <<"exception", "finished">>
         /\ (api[i].made /\ login_success[i] = "None") =>
              wlog[i] = <<"exception", "finished">>
         /\ login_success[i] = "False" => wlog[i] = <<"login_failed">>
         /\ (posts[i] # <<>> /\ posts[i][1].outcome.kind = "exc") =>
              wlog[i] = <<"failed", "finished">>

\* C13, witness: a task whose construction succeeded has ended through the
\* except clause, after an exception left login_and_get_cookies with the
\* browser started, and its trigger was answered.
C13_Witness ==
  \E i \in Inv :
    /\ pc[i] = "w_done" /\ api[i].made /\ launches[i] = 1
    /\ login_success[i] = "None"
    /\ wlog[i] = <<"exception", "finished">>
    /\ response[i].success

\* C17: asynchronous acceptance.  The step that takes an invocation out of
\* idle answers it at once, with status 200, success and the request id made
\* of the action and the clock, while no object has been built, no browser
\* launched and no POST sent; and no later step of the background task, on
\* whatever path it ends, changes that answer.
C17_AcceptedAtOnce ==
  [][\A i \in Inv :
       /\ (pc[i] = "idle" /\ pc'[i] # "idle") =>
            /\ response'[i] = [status |-> 200, success |-> TRUE,
                               request_id |-> <<action'[i], now>>]
            /\ pc'[i] = "w_start"
            /\ ~api'[i].made /\ launches'[i] = 0
            /\ posts'[i] = <<>> /\ sent'[i] = <<>>
       /\ pc[i] # "idle" => response'[i] = response[i]]_vars

\* C17, witness: a Signout accepted at clock 1 has ended after a POST that
\* raised, and its answer still says success.
C17_Witness ==
  \E i \in Inv :
    /\ pc[i] = "w_done" /\ attendance_success[i] = "False"
    /\ posts[i][1].outcome.kind = "exc"
    /\ response[i] = [status |-> 200, success |-> TRUE,
                      request_id |-> <<"Signout", 1>>]

\* C18: the URL check is advisory.  The step that looks at the URL after
\* the form was submitted goes on to the cookie extraction with the login
\* undecided, whatever the URL contains; and under every kind of URL a
\* login that captured cookies whose important names are unambiguous ends
\* with these cookies in the session's jar and returns True.
C18_UrlAdvisory ==
  /\ [][\A i \in Inv :
         (pc[i] = "l_url" /\ pc'[i] # "l_url") =>
           /\ pc'[i] = "l_cookies"
           /\ loc'[i].url \in UrlKinds
           /\ loc'[i].ret = "None"
           /\ loc'[i].submitted = loc[i].submitted]_vars
  /\ [](\A i \in Inv :
         ( /\ pc[i] \in {"l_finally", "l_return"}
           /\ loc[i].url \in UrlKinds
           /\ loc[i].captured # {}
           /\ \A n \in important_cookies : ~jar_get_raises(jar[i], n) )
         => /\ loc[i].ret = "True"
            /\ jar[i] = transfer({}, loc[i].captured))

\* C18, witness: after a submitted form the URL contained neither
\* "dashboard" nor "home", and the login is returning True with the
\* captured cookie in the jar.
C18_Witness ==
  \E i \in Inv :
    /\ pc[i] = "l_return" /\ loc[i].ret = "True"
    /\ loc[i].submitted # {} /\ loc[i].url = "other"
    /\ Cardinality(loc[i].captured) = 1
    /\ jar[i] = transfer({}, loc[i].captured)

\* C19: one submit mechanism per acquisition.  Once the form has been
\* submitted exactly one mechanism was used: the click when the page has a
\* submit-typed control, the carriage-return when it has none.
C19_OneSubmitMechanism ==
  \A i \in Inv :
    loc[i].submitted # {} =>
      /\ Cardinality(loc[i].submitted) = 1
      /\ loc[i].dom.hasSubmit => loc[i].submitted = {"click"}
      /\ ~loc[i].dom.hasSubmit => loc[i].submitted = {"return"}

\* C20: credentials are entered only after both fields were located.
\* Whenever something has been typed into the page, both the username field
\* and the password field had been found, and what was typed is the
\* configured username and the decoded secret; and on a page whose username
\* field was found but which has no password field, the login ends with
\* nothing typed, nothing submitted, no cookie captured or transferred, and
\* returns False.
C20_FillAfterBothFound ==
  \A i \in Inv :
    /\ loc[i].typed # {} =>
         /\ loc[i].username_field # "None" /\ loc[i].password_field
         /\ loc[i].typed = {<<"username", api[i].username>>,
                            <<"password", api[i].password>>}
    /\ loc[i].submitted # {} => loc[i].typed # {}
    /\ ( /\ pc[i] \in {"l_pwd", "l_finally", "l_return"}
         /\ loc[i].username_field # "None" /\ ~loc[i].dom.hasPwd )
       => /\ loc[i].typed = {} /\ loc[i].submitted = {}
          /\ loc[i].captured = {} /\ jar[i] = {}
          /\ pc[i] # "l_pwd" => loc[i].ret = "False"

\* C20, witness: a login is returning False on a page whose username field
\* was found and which has no password field, with nothing typed.
C20_Witness ==
  \E i \in Inv :
    /\ pc[i] = "l_return" /\ loc[i].ret = "False"
    /\ loc[i].username_field # "None" /\ ~loc[i].dom.hasPwd
    /\ loc[i].typed = {} /\ loc[i].submitted = {}

\* An invocation is in flight from its trigger to the end of its task.
InFlight(i) == pc[i] \notin {"idle", "w_done"}

\* C14: distinct correlation identifiers.  Two invocations that are in
\* flight at the same time have different request ids.
C14_DistinctRequestIds ==
  \A i \in Inv : \A j \in Inv \ {i} :
    (InFlight(i) /\ InFlight(j)) => request_id[i] # request_id[j]

\* C15: directory isolation.  Two invocations that are both inside their
\* acquisition use different session ids, hence different profile and cache
\* directories, and the directories of an invocation exist as long as its
\* browser runs.
C15_DirectoryIsolation ==
  \A i \in Inv :
    /\ \A j \in Inv \ {i} :
         (loc[i].sid # 0 /\ loc[j].sid # 0) => loc[i].sid # loc[j].sid
    /\ (browser[i] = "running" /\ loc[i].sid # 0) =>
         \A k \in 1..3 : temp_dirs(loc[i].sid)[k] \in fs

\* C16: the session is owned by its invocation.  In every step the jar of
\* an invocation changes only by that invocation's own transfer loop, which
\* adds the cookies its own browser handed over; what an acquisition
\* captured changes only by its own get_cookies or the end of its login;
\* and a POST an invocation issues carries its own jar.
C16_SessionOwned ==
  [][\A i \in Inv :
       /\ jar'[i] # jar[i] =>
            /\ pc[i] = "l_transfer" /\ pc'[i] = "l_important"
            /\ jar'[i] = transfer(jar[i], loc[i].captured)
       /\ loc'[i].captured # loc[i].captured =>
            \/ pc[i] = "l_cookies" /\ pc'[i] = "l_transfer"
            \/ loc'[i] = NoLoc /\ pc'[i] \in {"w_after_login", "w_except"}
       /\ posts'[i] # posts[i] =>
            /\ pc[i] = "m_post"
            /\ Len(posts'[i]) = Len(posts[i]) + 1
            /\ posts'[i][Len(posts'[i])].cookies = jar[i]
            /\ jar'[i] = jar[i]]_vars

\* C16, witness: both invocations have issued their POST, with the two
\* different cookies their own acquisitions captured.
C16_Witness ==
  /\ \A i \in Inv : Len(posts[i]) = 1 /\ posts[i][1].cookies = jar[i]
  /\ Cardinality(posts[1][1].cookies) = 1
  /\ Cardinality(posts[2][1].cookies) = 1
  /\ \E c \in posts[1][1].cookies : c.name = "PLAY_SESSION"
  /\ \E c \in posts[2][1].cookies : c.name = "access_token"

\* C21: the action is carried unchanged.  Under every interleaving of two
\* invocations, each POST of an invocation goes to the attendance URL with
\* the query action=<the action of the handler that was triggered, as it
\* stands in the invocation's request id> and with an empty JSON body; and
\* the action the background task holds is that of its trigger.
C21_ActionCarried ==
  \A i \in Inv :
    /\ pc[i] # "idle" =>
         /\ action[i] \in Actions
         /\ action[i] = request_id[i][1]
         /\ action[i] = response[i].request_id[1]
    /\ \A k \in 1..Len(posts[i]) :
         /\ posts[i][k].query = <<"action", request_id[i][1]>>
         /\ posts[i][k].body = {}
         /\ posts[i][k].url = api[i].attendance_api

\* C21, witness: a Signin and a Signout ran side by side, and each has
\* issued its POST, the first with action=Signin, the second with
\* action=Signout.
C21_Witness ==
  /\ pc[1] # "idle" /\ pc[2] # "idle"
  /\ request_id[1][1] = "Signin" /\ request_id[2][1] = "Signout"
  /\ Len(posts[1]) = 1 /\ posts[1][1].query = <<"action", "Signin">>
  /\ Len(posts[2]) = 1 /\ posts[2][1].query = <<"action", "Signout">>
  /\ posts[1][1].body = {} /\ posts[2][1].body = {}

\* C22: no Selenium, no login.  When the Selenium import failed, an
\* invocation never gets inside login_and_get_cookies beyond its first test:
\* it creates no directory, launches no browser, captures and transfers no
\* cookie; the login of an invocation whose construction succeeded returns
\* False, the worker ends with "Login failed", and the invocation issues
\* no POST and attempts no notification.
C22_NoSeleniumNoLogin ==
  \A i \in Inv :
    ~selenium =>
      /\ pc[i] \in {"idle", "w_start", "l_entry", "w_after_login",
                     "w_except", "w_done"}
      /\ made[i] = {} /\ fs = {}
      /\ launches[i] = 0 /\ browser[i] = "none"
      /\ loc[i] = NoLoc /\ jar[i] = {}
      /\ login_success[i] \in {"None", "False"}
      /\ (api[i].made /\ pc[i] \in {"w_after_login", "w_done"}) =>
           login_success[i] = "False"
      /\ (api[i].made /\ pc[i] = "w_done") => wlog[i] = <<"login_failed">>
      /\ posts[i] = <<>> /\ sent[i] = <<>>

\* C22, witness: without Selenium, an invocation whose construction
\* succeeded has ended after a login that returned False.
C22_Witness ==
  \E i \in Inv :
    /\ ~selenium /\ api[i].made
    /\ pc[i] = "w_done" /\ login_success[i] = "False"
    /\ posts[i] = <<>>

\* C23: success exactly when the captured cookies are installed.  A login
\* whose result is True has every captured cookie in the session's jar; and
\* once the transfer loop has installed a captured, non-empty cookie set,
\* the login is not in its except clause and its result is not False.
C23_SuccessIffTransferred ==
  \A i \in Inv :
    /\ loc[i].ret = "True" =>
         \A c \in loc[i].captured : create_cookie(c) \in jar[i]
    /\ ( /\ pc[i] \in {"l_important", "l_except", "l_finally", "l_return"}
         /\ loc[i].captured # {}
         /\ jar[i] = transfer({}, loc[i].captured) )
       => (pc[i] # "l_except" /\ loc[i].ret # "False")

====
